---- MODULE Spec2Model ----
(***************************************************************************)
(* A model of backend/server.js: an Express application with two routes,   *)
(* POST /api/stt and POST /api/openai, each forwarding one request to an   *)
(* upstream API with a bearer credential.                                  *)
(*                                                                         *)
(* Every request runs the chain registered in server.js, in registration   *)
(* order: express.json() (line 17), cors(...) (lines 21-25), then the      *)
(* route (upload.single('audio') and the handler, lines 38-72; or the      *)
(* handler of lines 75-109).  A middleware that fails hands its error to   *)
(* Express' default error handler, which answers with err.status or 500    *)
(* and an error page.  Requests interleave at every asynchronous boundary. *)
(*                                                                         *)
(* The model runs the program twice in lockstep (Runs): both runs receive  *)
(* the same requests and the same upstream replies and differ at most in   *)
(* the credential, so that what a client can learn about the credential is *)
(* a property of states.                                                   *)
(***************************************************************************)
EXTENDS Integers, Sequences, FiniteSets, TLC

\* The number of requests in flight together.
NumRequests == 2

Requests == 1..NumRequests
Runs == {1, 2}

----------------------------------------------------------------------------
\* JavaScript values

Undefined == [js |-> "undefined"]
Null == [js |-> "null"]
Str(s) == [js |-> "string", v |-> s]
\* An object whose only property of interest is `question` (Undefined: absent).
Obj(q) == [js |-> "object", question |-> q]

\* !x, for the values above
Falsy(x) == x \in {Undefined, Null, Str("")}

----------------------------------------------------------------------------
\* Configuration

\* process.env.OPENAI_API_KEY: a string, or Undefined when the variable is not set
KeyValues == {Str("sk-A"), Str("sk-B"), Undefined}

\* The credentials of the two runs
KeyPairs == {k \in [Runs -> KeyValues] : k[1] = Str("sk-A") /\ k[2] # k[1]}

\* `${OPENAI_API_KEY}` inside a template literal
TemplateString(k) == IF k = Undefined THEN "undefined" ELSE k.v

CorsOrigin == "https://voice-ai-frontend-q3c3.onrender.com"
OtherOrigin == "https://other.example"
CorsMethods == "GET,POST"
CorsAllowedHeaders == "Content-Type"

WhisperUrl == "https://api.openai.com/v1/audio/transcriptions"
ChatUrl == "https://api.openai.com/v1/chat/completions"

----------------------------------------------------------------------------
\* Requests a client can send

AudioPart == [fieldname |-> "audio", mimetype |-> "audio/webm", buffer |-> "bytes-1"]
OtherPart == [fieldname |-> "file", mimetype |-> "audio/ogg", buffer |-> "bytes-2"]

\* The bodies of JSON requests, as sent
JsonTexts == {"{bad", "{}", "{\"question\":\"\"}", "{\"question\":null}",
              "{\"question\":\"What is 6*7?\"}"}

\* The file parts of multipart requests, as sent
PartLists == {<<>>, <<AudioPart>>, <<OtherPart>>}

Request(m, p, o, ct, j, ps) ==
    [method |-> m, path |-> p, origin |-> o, contentType |-> ct, json |-> j, parts |-> ps]

Origins == {CorsOrigin, OtherOrigin}

SttInputs ==
    {Request("POST", "/api/stt", o, "multipart/form-data", "", ps) :
        o \in Origins, ps \in PartLists}
    \cup {Request("POST", "/api/stt", o, "", "", <<>>) : o \in Origins}

OpenaiInputs ==
    {Request("POST", "/api/openai", o, "application/json", j, <<>>) :
        o \in Origins, j \in JsonTexts}
    \cup {Request("POST", "/api/openai", o, "", "", <<>>) : o \in Origins}

PreflightInputs ==
    {Request("OPTIONS", p, o, "", "", <<>>) :
        p \in {"/api/stt", "/api/openai"}, o \in Origins}

Inputs == SttInputs \cup OpenaiInputs \cup PreflightInputs

NoRequest == Request("", "", "", "", "", <<>>)

----------------------------------------------------------------------------
\* Replies of the upstream APIs, as axios reports them

Reply(k, st, text, choices, data, msg) ==
    [kind |-> k, status |-> st, text |-> text, choices |-> choices,
     data |-> data, message |-> msg]

NotCalled == Reply("none", 0, "", <<>>, "", "")
Pending == Reply("pending", 0, "", <<>>, "", "")

Choice(c) == [message |-> [role |-> "assistant", content |-> c]]

\* A 2xx reply carries the body the API documents; a non-2xx reply carries an
\* error body; without a reply axios reports its own message.
WhisperReplies ==
    {Reply("2xx", 200, "hello world", <<>>, "", ""),
     Reply("non2xx", 401, "", <<>>, "{error:{message:'Incorrect API key provided'}}",
           "Request failed with status code 401"),
     Reply("noResponse", 0, "", <<>>, "", "Network Error")}

ChatReplies ==
    {Reply("2xx", 200, "", <<Choice("42"), Choice("forty-two")>>, "", ""),
     Reply("non2xx", 429, "", <<>>, "{error:{message:'Rate limit reached'}}",
           "Request failed with status code 429"),
     Reply("noResponse", 0, "", <<>>, "", "Network Error")}

----------------------------------------------------------------------------
\* The libraries the application is built from

Response(status, body) == [status |-> status, body |-> body]

NoBody == [length |-> 0]

\* Express' default error handler: the status of the error, or 500, and a page.
DefaultErrorHandler(status, text) == Response(status, [page |-> text])

\* JSON.parse in body-parser's strict mode, on the texts of JsonTexts
ParseJson(text) ==
    CASE text = "{}" -> [ok |-> TRUE, value |-> Obj(Undefined)]
      [] text = "{\"question\":\"\"}" -> [ok |-> TRUE, value |-> Obj(Str(""))]
      [] text = "{\"question\":null}" -> [ok |-> TRUE, value |-> Obj(Null)]
      [] text = "{\"question\":\"What is 6*7?\"}" ->
             [ok |-> TRUE, value |-> Obj(Str("What is 6*7?"))]
      [] OTHER -> [ok |-> FALSE, value |-> Undefined]

\* require('express') (line 3) resolves to whichever major version is
\* installed; the source pins none.
ExpressVersions == {"4", "5"}

\* express.json() (line 17).  A body that fails to parse is an error with
\* status 400.  A request without a body, or whose Content-Type is not JSON,
\* is not parsed: Express 4 (body-parser 1.x) then leaves {} in req.body,
\* Express 5 (body-parser 2.x) leaves req.body undefined.
JsonBody(i, version) ==
    IF i.contentType = "application/json"
    THEN LET p == ParseJson(i.json) IN [err |-> ~p.ok, body |-> p.value]
    ELSE [err |-> FALSE, body |-> IF version = "4" THEN Obj(Undefined) ELSE Undefined]

FileOf(part) ==
    [js |-> "file", fieldname |-> part.fieldname, mimetype |-> part.mimetype,
     buffer |-> part.buffer]

\* multer's upload.single(name) on the file parts of a multipart body: a file
\* in a field it was not told to expect, or a second file in `name`, is the
\* error LIMIT_UNEXPECTED_FILE.
RECURSIVE MulterParts(_, _, _, _)
MulterParts(parts, name, filesLeft, file) ==
    IF parts = <<>> THEN [err |-> "", file |-> file]
    ELSE LET p == Head(parts) IN
         IF p.fieldname # name \/ filesLeft <= 0
         THEN [err |-> "LIMIT_UNEXPECTED_FILE", file |-> Undefined]
         ELSE MulterParts(Tail(parts), name, filesLeft - 1, FileOf(p))

\* upload.single('audio') (line 38): a request that is not multipart passes
\* untouched, with req.file undefined.
UploadSingleResult(i) ==
    IF i.contentType # "multipart/form-data" THEN [err |-> "", file |-> Undefined]
    ELSE MulterParts(i.parts, "audio", 1, Undefined)

\* The error axios rejects with: it carries the request's config, and the
\* response when the upstream answered.
AxiosError(call, reply) ==
    [hasResponse |-> reply.kind = "non2xx",
     response |-> [status |-> reply.status, data |-> reply.data],
     message |-> reply.message,
     config |-> call]

----------------------------------------------------------------------------
\* The pieces of the two handlers

\* lines 44-61
WhisperCall(file, key) ==
    [url |-> WhisperUrl,
     authorization |-> "Bearer " \o TemplateString(key),
     file |-> [filename |-> "audio.webm", contentType |-> file.mimetype,
               buffer |-> file.buffer],
     model |-> "whisper-1"]

\* lines 84-98
ChatCall(question, key) ==
    [url |-> ChatUrl,
     authorization |-> "Bearer " \o TemplateString(key),
     contentType |-> "application/json",
     model |-> "gpt-3.5-turbo",
     messages |-> <<[role |-> "user", content |-> question.v]>>,
     temperature |-> "0.7",
     max_tokens |-> 250]

\* line 63, had it read another property of the reply
SttSuccess_WrongField(whisperResponse) ==
    Response(200, [transcription |-> whisperResponse.data])

\* line 63
SttSuccess(whisperResponse) ==
    Response(200, [transcription |-> whisperResponse.text])

\* lines 65-71, had they reported the error object itself, whose config holds
\* the headers of the call
SttCatch_LeakConfig(error) ==
    Response(500, [error |-> "Failed to transcribe audio.",
                   details |-> IF error.hasResponse THEN error.response.data
                               ELSE error.config.authorization])

\* lines 65-71
SttCatch(error) ==
    Response(500, [error |-> "Failed to transcribe audio.",
                   details |-> IF error.hasResponse THEN error.response.data
                               ELSE error.message])

\* line 100, had it read another choice
OpenaiSuccess_SecondChoice(openaiResponse) ==
    Response(200, [answer |-> openaiResponse.choices[2].message.content])

\* line 100
OpenaiSuccess(openaiResponse) ==
    Response(200, [answer |-> openaiResponse.choices[1].message.content])

\* lines 102-108
OpenaiCatch(error) ==
    Response(500, [error |-> "Failed to get answer from AI.",
                   details |-> IF error.hasResponse THEN error.response.data
                               ELSE error.message])

----------------------------------------------------------------------------
\* State

VARIABLES
    express,        \* the major version of Express the application runs on
    OPENAI_API_KEY, \* per run: the credential read at startup (line 28)
    pc,             \* per request: where its handling stands
    req,            \* per request: the request as received
    body,           \* per request: req.body
    file,           \* per request: req.file
    resHeaders,     \* per request: the headers cors has set on the response
    upstream,       \* per request: the reply of its upstream call
    outbound,       \* per run and request: the upstream calls issued, in order
    res             \* per run and request: the responses sent, in order

vars == <<express, OPENAI_API_KEY, pc, req, body, file, resHeaders, upstream, outbound, res>>

NoHeaders == [acao |-> "", vary |-> "", methods |-> "", allowHeaders |-> ""]

Init ==
    /\ express \in ExpressVersions
    /\ OPENAI_API_KEY \in KeyPairs
    /\ pc = [r \in Requests |-> "idle"]
    /\ req = [r \in Requests |-> NoRequest]
    /\ body = [r \in Requests |-> Undefined]
    /\ file = [r \in Requests |-> Undefined]
    /\ resHeaders = [r \in Requests |-> NoHeaders]
    /\ upstream = [r \in Requests |-> NotCalled]
    /\ outbound = [w \in Runs |-> [r \in Requests |-> <<>>]]
    /\ res = [w \in Runs |-> [r \in Requests |-> <<>>]]

\* res.status(..).json(..), or the default error handler, in both runs
Send(r, response) ==
    res' = [w \in Runs |-> [res[w] EXCEPT ![r] = Append(@, response[w])]]

Same(response) == [w \in Runs |-> response]

\* axios.post(...) in both runs, each with its own credential
Post(r, call) ==
    outbound' = [w \in Runs |-> [outbound[w] EXCEPT ![r] = Append(@, call[w])]]

\* `await`, had the handlers kept the reply in a variable of the module, which
\* the requests of a route share
AwaitedReply_Shared(r) ==
    LET settled == {q \in Requests : /\ req[q].path = req[r].path
                                     /\ upstream[q].kind \notin {"none", "pending"}}
    IN upstream[CHOOSE q \in settled : \A p \in settled : q <= p]

\* `await`: the reply the suspended handler of r resumes with
AwaitedReply(r) == upstream[r]

----------------------------------------------------------------------------
\* Steps

\* A request arrives and express.json() (line 17) reads it.
ExpressJson(r) ==
    /\ pc[r] = "idle"
    /\ \E i \in Inputs : LET parsed == JsonBody(i, express) IN
         /\ req' = [req EXCEPT ![r] = i]
         /\ IF parsed.err
            THEN /\ Send(r, Same(DefaultErrorHandler(400, "SyntaxError")))
                 /\ pc' = [pc EXCEPT ![r] = "done"]
                 /\ body' = body
            ELSE /\ body' = [body EXCEPT ![r] = parsed.body]
                 /\ pc' = [pc EXCEPT ![r] = "cors"]
                 /\ res' = res
    /\ UNCHANGED <<express, OPENAI_API_KEY, file, resHeaders, upstream, outbound>>

\* The CORS step, had it refused the requests of other origins.
Cors_RejectsOtherOrigins(r) ==
    /\ pc[r] = "cors"
    /\ resHeaders' = [resHeaders EXCEPT ![r] =
           [acao |-> CorsOrigin, vary |-> "Origin", methods |-> "", allowHeaders |-> ""]]
    /\ IF req[r].method = "OPTIONS" \/ req[r].origin # CorsOrigin
       THEN /\ Send(r, Same(Response(IF req[r].method = "OPTIONS" THEN 204 ELSE 403, NoBody)))
            /\ pc' = [pc EXCEPT ![r] = "done"]
       ELSE /\ pc' = [pc EXCEPT ![r] =
                        IF req[r].path = "/api/stt" THEN "upload" ELSE "openai"]
            /\ res' = res
    /\ UNCHANGED <<express, OPENAI_API_KEY, req, body, file, upstream, outbound>>

\* cors({origin, methods, allowedHeaders}) (lines 21-25).  With a string for
\* `origin` the middleware never compares it with the request's Origin: it
\* sets Access-Control-Allow-Origin to that string, answers an OPTIONS request
\* itself (204) and passes every other request on to its route.
Cors(r) ==
    /\ pc[r] = "cors"
    /\ IF req[r].method = "OPTIONS"
       THEN /\ resHeaders' = [resHeaders EXCEPT ![r] =
                   [acao |-> CorsOrigin, vary |-> "Origin", methods |-> CorsMethods,
                    allowHeaders |-> CorsAllowedHeaders]]
            /\ Send(r, Same(Response(204, NoBody)))
            /\ pc' = [pc EXCEPT ![r] = "done"]
       ELSE /\ resHeaders' = [resHeaders EXCEPT ![r] =
                   [acao |-> CorsOrigin, vary |-> "Origin", methods |-> "",
                    allowHeaders |-> ""]]
            /\ pc' = [pc EXCEPT ![r] =
                        IF req[r].path = "/api/stt" THEN "upload" ELSE "openai"]
            /\ res' = res
    /\ UNCHANGED <<express, OPENAI_API_KEY, req, body, file, upstream, outbound>>

\* upload.single('audio') (line 38)
UploadSingle(r) ==
    /\ pc[r] = "upload"
    /\ LET m == UploadSingleResult(req[r]) IN
         IF m.err # ""
         THEN /\ Send(r, Same(DefaultErrorHandler(500, "MulterError: Unexpected field")))
              /\ pc' = [pc EXCEPT ![r] = "done"]
              /\ file' = file
         ELSE /\ file' = [file EXCEPT ![r] = m.file]
              /\ pc' = [pc EXCEPT ![r] = "stt"]
              /\ res' = res
    /\ UNCHANGED <<express, OPENAI_API_KEY, req, body, resHeaders, upstream, outbound>>

\* The handler of POST /api/stt up to its `await` (lines 38-61), had it not
\* awaited the call: whisperResponse is then a promise, reading .data.text of
\* it throws, and the catch block answers while the call is pending.
SttHandler_NoAwait(r) ==
    /\ pc[r] = "stt"
    /\ IF Falsy(file[r])
       THEN /\ Send(r, Same(Response(400, [error |-> "No audio file provided."])))
            /\ pc' = [pc EXCEPT ![r] = "done"]
            /\ UNCHANGED <<upstream, outbound>>
       ELSE /\ Post(r, [w \in Runs |-> WhisperCall(file[r], OPENAI_API_KEY[w])])
            /\ upstream' = [upstream EXCEPT ![r] = Pending]
            /\ Send(r, [w \in Runs |-> SttCatch(AxiosError(
                   WhisperCall(file[r], OPENAI_API_KEY[w]),
                   Reply("noResponse", 0, "", <<>>, "",
                         "Cannot read properties of undefined (reading 'text')")))])
            /\ pc' = [pc EXCEPT ![r] = "done"]
    /\ UNCHANGED <<express, OPENAI_API_KEY, req, body, file, resHeaders>>

\* The handler of POST /api/stt up to its `await` (lines 38-61)
SttHandler(r) ==
    /\ pc[r] = "stt"
    /\ IF Falsy(file[r])
       THEN /\ Send(r, Same(Response(400, [error |-> "No audio file provided."])))
            /\ pc' = [pc EXCEPT ![r] = "done"]
            /\ UNCHANGED <<upstream, outbound>>
       ELSE /\ Post(r, [w \in Runs |-> WhisperCall(file[r], OPENAI_API_KEY[w])])
            /\ upstream' = [upstream EXCEPT ![r] = Pending]
            /\ pc' = [pc EXCEPT ![r] = "sttAwait"]
            /\ res' = res
    /\ UNCHANGED <<express, OPENAI_API_KEY, req, body, file, resHeaders>>

\* The handler of POST /api/openai up to its `await` (lines 75-98).  Line 76
\* destructures req.body outside the try block: when req.body is undefined it
\* throws, the handler's promise rejects and Express 5 (the version that
\* leaves req.body undefined) hands the TypeError to its default error handler.
OpenaiHandler(r) ==
    /\ pc[r] = "openai"
    /\ IF body[r] = Undefined
       THEN /\ Send(r, Same(DefaultErrorHandler(500,
                   "TypeError: Cannot destructure property 'question' of 'req.body' as it is undefined.")))
            /\ pc' = [pc EXCEPT ![r] = "done"]
            /\ UNCHANGED <<upstream, outbound>>
       ELSE LET question == body[r].question IN
            IF Falsy(question)
            THEN /\ Send(r, Same(Response(400, [error |-> "No question provided."])))
                 /\ pc' = [pc EXCEPT ![r] = "done"]
                 /\ UNCHANGED <<upstream, outbound>>
            ELSE /\ Post(r, [w \in Runs |-> ChatCall(question, OPENAI_API_KEY[w])])
                 /\ upstream' = [upstream EXCEPT ![r] = Pending]
                 /\ pc' = [pc EXCEPT ![r] = "openaiAwait"]
                 /\ res' = res
    /\ UNCHANGED <<express, OPENAI_API_KEY, req, body, file, resHeaders>>

\* The upstream answers the call of r, or the call fails without an answer.
UpstreamSettles(r) ==
    /\ pc[r] \in {"sttAwait", "openaiAwait"}
    /\ upstream[r] = Pending
    /\ \E reply \in IF pc[r] = "sttAwait" THEN WhisperReplies ELSE ChatReplies :
         upstream' = [upstream EXCEPT ![r] = reply]
    /\ UNCHANGED <<express, OPENAI_API_KEY, pc, req, body, file, resHeaders, outbound, res>>

Last(s) == s[Len(s)]

\* The handler of POST /api/stt from its `await` on (lines 62-71)
SttResume(r) ==
    /\ pc[r] = "sttAwait"
    /\ upstream[r] # Pending
    /\ LET whisperResponse == AwaitedReply(r) IN
         IF whisperResponse.kind = "2xx"
         THEN Send(r, Same(SttSuccess(whisperResponse)))
         ELSE Send(r, [w \in Runs |->
                  SttCatch(AxiosError(Last(outbound[w][r]), whisperResponse))])
    /\ pc' = [pc EXCEPT ![r] = "done"]
    /\ UNCHANGED <<express, OPENAI_API_KEY, req, body, file, resHeaders, upstream, outbound>>

\* The handler of POST /api/openai from its `await` on, had its catch block
\* issued the call once more before giving up.
OpenaiResume_Retry(r) ==
    /\ pc[r] = "openaiAwait"
    /\ upstream[r] # Pending
    /\ LET openaiResponse == AwaitedReply(r) IN
         IF openaiResponse.kind = "2xx"
         THEN /\ Send(r, Same(OpenaiSuccess(openaiResponse)))
              /\ pc' = [pc EXCEPT ![r] = "done"]
              /\ UNCHANGED <<upstream, outbound>>
         ELSE IF Len(outbound[1][r]) < 2
         THEN /\ Post(r, [w \in Runs |-> Last(outbound[w][r])])
              /\ upstream' = [upstream EXCEPT ![r] = Pending]
              /\ UNCHANGED <<pc, res>>
         ELSE /\ Send(r, [w \in Runs |->
                     OpenaiCatch(AxiosError(Last(outbound[w][r]), openaiResponse))])
              /\ pc' = [pc EXCEPT ![r] = "done"]
              /\ UNCHANGED <<upstream, outbound>>
    /\ UNCHANGED <<express, OPENAI_API_KEY, req, body, file, resHeaders>>

\* The handler of POST /api/openai from its `await` on (lines 99-108)
OpenaiResume(r) ==
    /\ pc[r] = "openaiAwait"
    /\ upstream[r] # Pending
    /\ LET openaiResponse == AwaitedReply(r) IN
         IF openaiResponse.kind = "2xx"
         THEN Send(r, Same(OpenaiSuccess(openaiResponse)))
         ELSE Send(r, [w \in Runs |->
                  OpenaiCatch(AxiosError(Last(outbound[w][r]), openaiResponse))])
    /\ pc' = [pc EXCEPT ![r] = "done"]
    /\ UNCHANGED <<express, OPENAI_API_KEY, req, body, file, resHeaders, upstream, outbound>>

Next ==
    \E r \in Requests :
        \/ ExpressJson(r)
        \/ Cors(r)
        \/ UploadSingle(r)
        \/ SttHandler(r)
        \/ OpenaiHandler(r)
        \/ UpstreamSettles(r)
        \/ SttResume(r)
        \/ OpenaiResume(r)

Spec == Init /\ [][Next]_vars

\* The event loop runs every continuation that is ready; nothing obliges the
\* upstream to answer.
Gateway(r) ==
    \/ Cors(r)
    \/ UploadSingle(r)
    \/ SttHandler(r)
    \/ OpenaiHandler(r)
    \/ SttResume(r)
    \/ OpenaiResume(r)

FairSpec == Spec /\ \A r \in Requests : WF_vars(Gateway(r))

----------------------------------------------------------------------------
\* What the claims speak of

Done(r) == pc[r] = "done"

\* The request carries a file part in the field `audio`.
HasAudioField(i) ==
    /\ i.contentType = "multipart/form-data"
    /\ \E k \in 1..Len(i.parts) : i.parts[k].fieldname = "audio"

\* The request carries a JSON body with a question that is not falsy.
HasQuestion(i) ==
    /\ i.contentType = "application/json"
    /\ ParseJson(i.json).ok
    /\ ~Falsy(ParseJson(i.json).value.question)

\* The request passes the validation of its route.
PassesValidation(i) ==
    /\ i.method = "POST"
    /\ \/ i.path = "/api/stt" /\ i.parts = <<AudioPart>>
       \/ i.path = "/api/openai" /\ HasQuestion(i)

Settled(r) == upstream[r].kind \in {"2xx", "non2xx", "noResponse"}
Failed(r) == upstream[r].kind \in {"non2xx", "noResponse"}

FixedError(path) ==
    IF path = "/api/stt" THEN "Failed to transcribe audio."
    ELSE "Failed to get answer from AI."

----------------------------------------------------------------------------
\* C1: every POST /api/stt without a file in the field `audio` (no body, a
\* body that is not multipart, multipart without files, multipart with its
\* file in another field) is answered exactly 400 {error: "No audio file
\* provided."}, and no call to the transcription upstream is made for it.
\* The code answers 500 when the file is in another field.
C1_NoAudioIs400 ==
    \A w \in Runs : \A r \in Requests :
        (req[r].method = "POST" /\ req[r].path = "/api/stt" /\ ~HasAudioField(req[r]))
        => /\ outbound[w][r] = <<>>
           /\ Done(r) => res[w][r] = <<Response(400, [error |-> "No audio file provided."])>>

\* C2: every POST /api/openai whose question is missing (absent from the
\* body, body absent or not parsed, empty string, null) is answered exactly
\* 400 {error: "No question provided."}, and no call to the chat upstream is
\* made for it.  The code answers with an error page when the body does not
\* parse, and with 500 when req.body is undefined.
C2_NoQuestionIs400 ==
    \A w \in Runs : \A r \in Requests :
        (req[r].method = "POST" /\ req[r].path = "/api/openai" /\ ~HasQuestion(req[r]))
        => /\ outbound[w][r] = <<>>
           /\ Done(r) => res[w][r] = <<Response(400, [error |-> "No question provided."])>>

\* C3: for a request with a question, a 2xx reply of the chat upstream is
\* answered 200 {answer: c}, c the content of the message of the first choice
\* of the reply; after validation the answer is 200 when the upstream
\* succeeded and 500 when it failed, and nothing else.
C3_AnswerIsFirstChoice ==
    \A w \in Runs : \A r \in Requests :
        (req[r].path = "/api/openai" /\ HasQuestion(req[r]) /\ Done(r))
        => /\ Len(res[w][r]) = 1
           /\ res[w][r][1].status \in {200, 500}
           /\ res[w][r][1].status = 200 <=> upstream[r].kind = "2xx"
           /\ upstream[r].kind = "2xx" =>
                res[w][r][1] =
                    Response(200, [answer |-> Head(upstream[r].choices).message.content])

C3_Witness ==
    \E r \in Requests :
        /\ req[r].path = "/api/openai" /\ Done(r) /\ upstream[r].kind = "2xx"
        /\ res[1][r] = <<Response(200, [answer |-> "42"])>>

\* C8: for a request with an audio file, a 2xx reply of the transcription
\* upstream is answered 200 {transcription: t}, t the text of the reply,
\* unmodified.
C8_TranscriptionIsText ==
    \A w \in Runs : \A r \in Requests :
        (req[r].path = "/api/stt" /\ Done(r) /\ upstream[r].kind = "2xx")
        => res[w][r] = <<Response(200, [transcription |-> upstream[r].text])>>

C8_Witness ==
    \E r \in Requests :
        /\ req[r].path = "/api/stt" /\ Done(r) /\ upstream[r].kind = "2xx"
        /\ res[1][r] = <<Response(200, [transcription |-> "hello world"])>>

\* C4: a request whose upstream call failed is answered 500 with the fixed
\* error message of its endpoint and with details equal to the error body of
\* the upstream when it answered non-2xx, and to the local error message when
\* it did not answer; and a 500 is sent only when the upstream call failed.
\* The code also sends 500 for requests that never reach the upstream.
C4_500IffUpstreamFailed ==
    \A w \in Runs : \A r \in Requests :
        /\ (Done(r) /\ Failed(r)) =>
              res[w][r] = <<Response(500,
                  [error |-> FixedError(req[r].path),
                   details |-> IF upstream[r].kind = "non2xx" THEN upstream[r].data
                               ELSE upstream[r].message])>>
        /\ \A k \in 1..Len(res[w][r]) : res[w][r][k].status = 500 => Failed(r)

\* C5: a request that passes validation issues exactly one upstream call over
\* its lifetime, to the upstream of its own endpoint, whether the call
\* succeeds or fails; no request ever has a second call.
C5_ExactlyOneCall ==
    \A w \in Runs : \A r \in Requests :
        /\ Len(outbound[w][r]) <= 1
        /\ (PassesValidation(req[r]) /\ pc[r] \in {"sttAwait", "openaiAwait", "done"})
           => /\ Len(outbound[w][r]) = 1
              /\ outbound[w][r][1].url =
                     IF req[r].path = "/api/stt" THEN WhisperUrl ELSE ChatUrl

C5_Witness ==
    \E r \in Requests :
        /\ PassesValidation(req[r]) /\ Done(r) /\ Failed(r)
        /\ Len(outbound[1][r]) = 1
        /\ res[1][r][1].status = 500

\* C6, as claimed: a request whose Origin is not the configured one is
\* rejected by the CORS layer: no handler runs for it, no handler answers it
\* and no upstream call is issued for it.
C6_OtherOriginRejected ==
    \A w \in Runs : \A r \in Requests :
        req[r].origin = OtherOrigin
        => /\ pc[r] \notin {"sttAwait", "openaiAwait"}
           /\ outbound[w][r] = <<>>
           /\ \A k \in 1..Len(res[w][r]) :
                  res[w][r][k].body \notin {[error |-> "No audio file provided."],
                                            [error |-> "No question provided."]}

\* The CORS step of a request: it sets Access-Control-Allow-Origin to the
\* configured origin whatever the Origin of the request, answers an OPTIONS
\* request itself with 204, and passes any other request on, unanswered.
CorsStepPasses ==
    \A w \in Runs : \A r \in Requests :
        (pc[r] = "cors" /\ pc'[r] # "cors")
        => /\ resHeaders'[r].acao = CorsOrigin
           /\ IF req[r].method = "OPTIONS"
              THEN pc'[r] = "done" /\ res'[w][r] = <<Response(204, NoBody)>>
              ELSE pc'[r] \in {"upload", "openai"} /\ res'[w][r] = <<>>

\* Two requests that differ at most in their Origin and whose upstream calls
\* had the same outcome are answered alike.
OriginIrrelevant ==
    \A w \in Runs : \A r, q \in Requests :
        (/\ Done(r) /\ Done(q)
         /\ req[r] = [req[q] EXCEPT !.origin = req[r].origin]
         /\ upstream[r] = upstream[q])
        => res[w][r] = res[w][q]

\* C6, amended: the CORS layer rejects no request.  Whatever its Origin, a
\* request that is not OPTIONS passes the layer, which only sets
\* Access-Control-Allow-Origin to the configured origin, and is then handled
\* by its route exactly as a request from the configured origin; an OPTIONS
\* request is answered 204 by the layer itself.
C6_CorsRejectsNothing == [][CorsStepPasses]_vars /\ []OriginIrrelevant

C6_Witness ==
    \E r \in Requests :
        /\ req[r].origin = OtherOrigin /\ req[r].method = "POST"
        /\ Done(r) /\ upstream[r].kind = "2xx"
        /\ Len(outbound[1][r]) = 1
        /\ res[1][r][1].status = 200

\* C7: the credential never reaches a client.  The two runs, which differ in
\* the credential alone and receive the same requests and upstream replies,
\* send identical responses; their upstream calls differ in the Authorization
\* header alone, which is "Bearer " followed by the credential of the run.
C7_CredentialStaysInside ==
    \A r \in Requests :
        /\ res[1][r] = res[2][r]
        /\ Len(outbound[1][r]) = Len(outbound[2][r])
        /\ \A k \in 1..Len(outbound[1][r]) :
              /\ [outbound[1][r][k] EXCEPT !.authorization = ""]
                     = [outbound[2][r][k] EXCEPT !.authorization = ""]
              /\ \A w \in Runs :
                     outbound[w][r][k].authorization
                         = "Bearer " \o TemplateString(OPENAI_API_KEY[w])

C7_Witness ==
    \E r \in Requests :
        /\ OPENAI_API_KEY[1] # OPENAI_API_KEY[2]
        /\ Done(r) /\ upstream[r].kind = "noResponse"
        /\ outbound[1][r] # outbound[2][r]
        /\ res[1][r][1].status = 500 /\ res[1][r] = res[2][r]

\* The response the outcome of r's own upstream call calls for
OwnOutcome(r) ==
    IF upstream[r].kind = "2xx"
    THEN IF req[r].path = "/api/stt"
         THEN Response(200, [transcription |-> upstream[r].text])
         ELSE Response(200, [answer |-> Head(upstream[r].choices).message.content])
    ELSE Response(500, [error |-> FixedError(req[r].path),
                        details |-> IF upstream[r].kind = "non2xx" THEN upstream[r].data
                                    ELSE upstream[r].message])

\* A request whose call has settled is answered from its own reply, and two
\* requests with the same input and the same outcome are answered alike.
AnsweredFromOwn ==
    \A w \in Runs : \A r \in Requests :
        /\ (Done(r) /\ Settled(r)) => res[w][r] = <<OwnOutcome(r)>>
        /\ \A q \in Requests :
              (Done(r) /\ Done(q) /\ req[r] = req[q] /\ upstream[r] = upstream[q])
              => res[w][r] = res[w][q]

\* A step belongs to one request: it leaves what the others hold untouched,
\* and it leaves the credential as it was read at startup.
StepOfOneRequest ==
    /\ OPENAI_API_KEY' = OPENAI_API_KEY
    /\ \E r \in Requests : \A q \in Requests \ {r} :
          /\ pc'[q] = pc[q] /\ req'[q] = req[q] /\ body'[q] = body[q]
          /\ file'[q] = file[q] /\ resHeaders'[q] = resHeaders[q]
          /\ upstream'[q] = upstream[q]
          /\ \A w \in Runs : outbound'[w][q] = outbound[w][q] /\ res'[w][q] = res[w][q]

\* C9: under any interleaving of the requests, the response of each is
\* determined by its own input and the outcome of its own upstream call; no
\* step of a request touches what another request holds, and no step changes
\* the credential.
C9_RequestsIndependent == []AnsweredFromOwn /\ [][StepOfOneRequest]_vars

C9_Witness ==
    \E r, q \in Requests :
        /\ r # q /\ req[r] = req[q]
        /\ Done(r) /\ Done(q)
        /\ upstream[r].kind = "2xx" /\ upstream[q].kind = "non2xx"
        /\ res[1][r][1].status = 200 /\ res[1][q][1].status = 500

AnsweredOnceAfterCall ==
    \A w \in Runs : \A r \in Requests :
        /\ Len(res[w][r]) <= 1
        /\ pc[r] \in {"sttAwait", "openaiAwait"} => res[w][r] = <<>>
        /\ upstream[r] = Pending => (res[w][r] = <<>> /\ ~Done(r))
        /\ (PassesValidation(req[r]) /\ res[w][r] # <<>>) => Settled(r)

\* C10: a request receives at most one response; one that passed validation
\* receives it only after its upstream call has completed; while the call is
\* pending nothing answers the request and nothing ends its wait, so a call
\* that never completes leaves it unanswered; and every request whose call
\* completes is eventually answered.
C10_AnsweredOnceCallCompletes ==
    /\ []AnsweredOnceAfterCall
    /\ \A r \in Requests :
          Settled(r) ~> (Done(r) /\ \A w \in Runs : Len(res[w][r]) = 1)

C10_Witness ==
    \E r, q \in Requests :
        /\ PassesValidation(req[r]) /\ Settled(r) /\ Done(r) /\ Len(res[1][r]) = 1
        /\ PassesValidation(req[q]) /\ upstream[q] = Pending /\ res[1][q] = <<>>

====
